---- MODULE Spec2Model ----
(***************************************************************************)
(* Verification model of the battery-utility-calculator.                   *)
(*                                                                         *)
(* The engine (EnergyCostCalculator) builds a linear program over energy   *)
(* flows per timestep and hands it to an external solver.  The model keeps *)
(* the program's variables and constraints as the source writes them and   *)
(* quantises energy to whole units: a solution of the model is a schedule  *)
(* of integer flows that satisfies every constraint of                     *)
(* set_model_constraints; the solver's answer is the maximum of the        *)
(* objective over these schedules.                                         *)
(*                                                                         *)
(* Spec      lays a schedule out timestep by timestep: its behaviours are  *)
(*           the solutions the engine's model admits.                      *)
(* SpecWorth runs calculate_storage_worth / calculate_multiple_storage_    *)
(*           worth on caller-owned series.                                 *)
(* SpecEngine follows one EnergyCostCalculator instance through its        *)
(*           construction, optimize and the result-extraction methods.     *)
(* SpecCurve runs calculate_bidding_curve on a table the caller owns.      *)
(***************************************************************************)
EXTENDS Integers, Sequences, FiniteSets, TLC

VARIABLES
    cfg,        \* the attributes of the engine instance (self.*)
    timestep,   \* Spec: number of timesteps of the schedule laid out so far
    model,      \* Spec: values of the model's variables at the last timestep
    previous,   \* Spec: the storage levels one timestep before the last
    objective,  \* Spec: value of the objective over the timesteps laid out
    series,     \* SpecWorth: the caller's pd.Series objects (shared, mutable)
    call,       \* SpecWorth: the arguments of the valuation call
    pc,         \* SpecWorth: position inside the valuation function
    eccs,       \* SpecWorth: the engine instances constructed so far, in order
    costs,      \* SpecWorth: objective values returned by optimize, in order
    result,     \* SpecWorth: the value the valuation function returns
    is_optimized, \* SpecEngine: self.is_optimized
    solution,   \* SpecEngine: the values the solver loaded into the model's variables
    last        \* SpecEngine: the last method called on the instance and its outcome

vars == <<cfg, timestep, model, previous, objective, series, call, pc, eccs, costs, result, is_optimized, solution, last>>

(***************************************************************************)
(* Bounds of the model.                                                    *)
(***************************************************************************)
MaxVolume == 2
MaxDemand == 2
MaxPrice == 1

(***************************************************************************)
(* Small helpers.                                                          *)
(***************************************************************************)
Rat(n, d) == [num |-> n, den |-> d]

RECURSIVE SumOver(_, _)
\* sum(f[k] for k in S)
SumOver(f, S) == IF S = {} THEN 0
                 ELSE LET k == CHOOSE y \in S : TRUE IN f[k] + SumOver(f, S \ {k})

SetMax(S) == CHOOSE x \in S : \A y \in S : y <= x

Magnitude(x) == IF x < 0 THEN - x ELSE x

(***************************************************************************)
(* pandas: a Series is an index (its kind and its labels) and the values   *)
(* by position.  Datetime labels are hours since the first timestamp used. *)
(***************************************************************************)
RangeLabels(n) == [i \in 1..n |-> i - 1]

Series(kind, labels, values) == [kind |-> kind, labels |-> labels, values |-> values]

\* pd.Series([...]): default integer index 0..n-1
IntSeries(values) == Series("int", RangeLabels(Len(values)), values)

IndexOf(s) == [kind |-> s.kind, labels |-> s.labels]

\* Index.equals comparing the labels alone, whatever they are labels of
IndexEqualsLabels(a, b) == a.labels = b.labels

\* Index.equals: same dtype and same labels in the same positions
IndexEquals(a, b) == a.kind = b.kind /\ a.labels = b.labels

\* series.iloc[position]
iloc(s, position) == s.values[position + 1]

\* series.loc[label] on an integer-labelled index
loc(s, label) == s.values[CHOOSE i \in 1..Len(s.labels) : s.labels[i] = label]

(***************************************************************************)
(* storage.py                                                              *)
(***************************************************************************)
Storage(id, c_rate, volume, charge_efficiency, discharge_efficiency) ==
    [id |-> id, c_rate |-> c_rate, volume |-> volume,
     charge_efficiency |-> charge_efficiency,
     discharge_efficiency |-> discharge_efficiency]

AllUseCases == {"eeg", "wholesale", "community", "home"}

(***************************************************************************)
(* EnergyCostCalculator: the model's variables.                            *)
(***************************************************************************)
\* len(self.timesteps)
Horizon(c) == Len(c.demand.values)

\* The largest whole number of units any single flow of a schedule can carry:
\* flows into the home are bounded by the demand, PV flows by the generation,
\* storage flows by the charge and discharge capacity.  The enumeration of a
\* NonNegativeReals variable stops above it.
FlowMax(c) ==
    SetMax({c.demand.values[i] : i \in 1..Len(c.demand.values)}
           \cup {c.solar_generation.values[i] : i \in 1..Len(c.solar_generation.values)}
           \cup {c.storage.volume})

\* pyo.Var(..., domain=NonNegativeReals)
NonNegative(c) == 0 .. FlowMax(c)

\* the bounds=(0, 0) of a channel that is off left out
SwitchedOn(c, allowed) == NonNegative(c)

\* pyo.Var(..., domain=NonNegativeReals, bounds=(0, 0)) when the channel is off
Switched(c, allowed) == IF allowed THEN NonNegative(c) ELSE {0}

\* A PV flow cannot exceed the generation of its timestep
PVRange(c, t) == 0 .. iloc(c.solar_generation, t)

(***************************************************************************)
(* EnergyCostCalculator.set_model_constraints.  m holds the values of the  *)
(* model's variables at timestep t, prev the storage levels at t - 1.      *)
(***************************************************************************)
\* restrict_demand written with <= : supply may fall short of the demand
restrict_demand_at_most(c, m, t) ==
    m.storage_to_home + m.pv_to_home + m.supplier_to_home + m.community_to_home
        <= iloc(c.demand, t)

\* consumption must equal supply
restrict_demand(c, m, t) ==
    m.storage_to_home + m.pv_to_home + m.supplier_to_home + m.community_to_home
        = iloc(c.demand, t)

\* use of the PV system must not exceed its generation
restrict_solar_gen(c, m, t) ==
    SumOver(m.pv_to_storage, c.storage_use_cases)
    + m.pv_to_eeg + m.pv_to_home + m.pv_to_wholesale + m.pv_to_community
        <= iloc(c.solar_generation, t)

\* restrict_storage_charge with the supplier's charging flow left out of the sum
ChargeFlowWithoutSupplier(c, m) ==
    SumOver(m.pv_to_storage, c.storage_use_cases)
    + m.wholesale_to_storage + m.community_to_storage

\* sum of the flows TO storage, the left side of restrict_storage_charge
ChargeFlow(c, m) ==
    SumOver(m.pv_to_storage, c.storage_use_cases)
    + m.wholesale_to_storage + m.community_to_storage + m.supplier_to_storage

\* sum of the flows FROM storage, the left side of restrict_storage_discharge
\* the discharge limit put on the flows to the markets alone
DischargeFlowToMarkets(m) ==
    m.storage_to_eeg + m.storage_to_wholesale + m.storage_to_community

DischargeFlow(m) ==
    m.storage_to_eeg + m.storage_to_wholesale + m.storage_to_community
    + m.storage_to_home

\* flow <= c_rate / volume: the rate divided by the volume instead of multiplied
WithinRateDivided(c, flow) ==
    flow * c.storage.c_rate.den * c.storage.volume <= c.storage.c_rate.num

\* flow <= c_rate * volume, with c_rate a fraction
WithinRate(c, flow) ==
    flow * c.storage.c_rate.den <= c.storage.c_rate.num * c.storage.volume

\* restrict_storage_charge limited by the c_rate alone, whatever the volume
restrict_storage_charge_by_rate(c, m, t) ==
    ChargeFlow(c, m) * c.storage.c_rate.den <= c.storage.c_rate.num

restrict_storage_charge(c, m, t) == WithinRate(c, ChargeFlow(c, m))

restrict_storage_discharge(c, m, t) == WithinRate(c, DischargeFlow(m))

\* restrict_soc_max bounding each use case's level instead of their sum
restrict_soc_max_per_use_case(c, m, t) ==
    \A use \in c.storage_use_cases : m.storage_level[use] <= c.storage.volume

\* storage level must be smaller than volume
restrict_soc_max(c, m, t) ==
    SumOver(m.storage_level, c.storage_use_cases) <= c.storage.volume

\* storage level must be larger than 0
restrict_soc_min(c, m, t) ==
    SumOver(m.storage_level, c.storage_use_cases) >= 0

\* every timestep taken for the first: the level of the timestep before is lost
PreviousLevelForgotten(c, prev, t, use) == 0

\* level of the previous timestep; the first timestep has none
PreviousLevel(c, prev, t, use) == IF t = 0 THEN 0 ELSE prev[use]

\* right sides of restrict_soc_eeg / _wholesale / _community / _home
soc_eeg(c, m, prev, t) ==
    PreviousLevel(c, prev, t, "eeg") + m.pv_to_storage["eeg"] - m.storage_to_eeg

soc_wholesale(c, m, prev, t) ==
    PreviousLevel(c, prev, t, "wholesale")
    + m.wholesale_to_storage - m.storage_to_wholesale

soc_community(c, m, prev, t) ==
    PreviousLevel(c, prev, t, "community")
    + m.community_to_storage - m.storage_to_community

soc_home(c, m, prev, t) ==
    PreviousLevel(c, prev, t, "home")
    + m.supplier_to_storage + m.pv_to_storage["home"] - m.storage_to_home

\* the level the soc restriction of an active use case fixes
SocLevel(c, m, prev, t, use) ==
    CASE use = "eeg" -> soc_eeg(c, m, prev, t)
      [] use = "wholesale" -> soc_wholesale(c, m, prev, t)
      [] use = "community" -> soc_community(c, m, prev, t)
      [] use = "home" -> soc_home(c, m, prev, t)

\* restrict_soc_<use> for each of the four names found in storage_use_cases
restrict_soc(c, m, prev, t) ==
    \A use \in c.storage_use_cases \cap AllUseCases :
        m.storage_level[use] = SocLevel(c, m, prev, t, use)

\* storage_level is a NonNegativeReals variable
LevelDomain(c, m) == \A use \in c.storage_use_cases : m.storage_level[use] >= 0

Constraints(c, m, prev, t) ==
    /\ restrict_demand(c, m, t)
    /\ restrict_solar_gen(c, m, t)
    /\ restrict_storage_charge(c, m, t)
    /\ restrict_storage_discharge(c, m, t)
    /\ restrict_soc_max(c, m, t)
    /\ restrict_soc_min(c, m, t)
    /\ restrict_soc(c, m, prev, t)
    /\ LevelDomain(c, m)

(***************************************************************************)
(* EnergyCostCalculator.set_model_variables: the variables of one timestep *)
(* and the values they can take, grouped by the constraint that ties them. *)
(***************************************************************************)
\* pv_to_eeg, pv_to_wholesale, pv_to_community, pv_to_storage[*], pv_to_home
PVVars(c, t) ==
    { p \in [pv_to_eeg : PVRange(c, t),
             pv_to_wholesale : PVRange(c, t),
             pv_to_community : IF c.allow_pv_to_community THEN PVRange(c, t) ELSE {0},
             pv_to_storage : [c.storage_use_cases -> PVRange(c, t)],
             pv_to_home : PVRange(c, t)] :
        restrict_solar_gen(c, p, t) }

\* storage_to_home, supplier_to_home, community_to_home
HomeVars(c, p, t) ==
    { h \in [storage_to_home : NonNegative(c),
             supplier_to_home : NonNegative(c),
             community_to_home : Switched(c, c.allow_community_to_home)] :
        restrict_demand(c, p @@ h, t) }

\* storage_to_eeg, storage_to_wholesale, storage_to_community
DischargeVars(c, h, t) ==
    { o \in [storage_to_eeg : NonNegative(c),
             storage_to_wholesale : Switched(c, c.allow_storage_to_wholesale),
             storage_to_community : Switched(c, c.allow_storage_to_community)] :
        restrict_storage_discharge(c, h @@ o, t) }

\* wholesale_to_storage, community_to_storage, supplier_to_storage
ChargeVars(c, p, t) ==
    { i \in [wholesale_to_storage : NonNegative(c),
             community_to_storage : Switched(c, c.allow_community_to_storage),
             supplier_to_storage : NonNegative(c)] :
        restrict_storage_charge(c, p @@ i, t) }

\* storage_level[t, use] for the use cases in storage_use_cases.  A level under
\* a name that has no soc restriction is tied to no flow and enters the
\* objective nowhere; it is laid at 0.
WithLevel(c, f, prev, t) ==
    f @@ [storage_level |->
            [use \in c.storage_use_cases |->
                IF use \in AllUseCases THEN SocLevel(c, f, prev, t, use) ELSE 0]]

\* every assignment of the variables of timestep t that all constraints admit
Solutions(c, prev, t) ==
    LET flows == UNION { UNION { UNION { { p @@ h @@ o @@ i : i \in ChargeVars(c, p, t) }
                                         : o \in DischargeVars(c, h, t) }
                                 : h \in HomeVars(c, p, t) }
                         : p \in PVVars(c, t) }
    IN { m \in { WithLevel(c, f, prev, t) : f \in flows } : Constraints(c, m, prev, t) }

(***************************************************************************)
(* EnergyCostCalculator.set_model_objective: the summand of timestep t.    *)
(***************************************************************************)
community_cf(c, m, t) ==
    m.storage_to_community * loc(c.community_market_prices, t)
    + m.pv_to_community * loc(c.community_market_prices, t)
    - m.community_to_storage * loc(c.community_market_prices, t)
    - m.community_to_home * loc(c.community_market_prices, t)

\* supplier_cf without the purchases for the home
supplier_cf_storage_only(c, m, t) ==
    - m.supplier_to_storage * loc(c.grid_prices, t)

supplier_cf(c, m, t) ==
    - m.supplier_to_storage * loc(c.grid_prices, t)
    - m.supplier_to_home * loc(c.grid_prices, t)

eeg_cf(c, m, t) ==
    m.storage_to_eeg * loc(c.eeg_prices, t)
    + m.pv_to_eeg * loc(c.eeg_prices, t)

wholesale_cf(c, m, t) ==
    m.storage_to_wholesale * loc(c.wholesale_market_prices, t)
    - m.wholesale_to_storage * loc(c.wholesale_market_prices, t)

ObjectiveTerm(c, m, t) ==
    community_cf(c, m, t) + supplier_cf(c, m, t) + eeg_cf(c, m, t) + wholesale_cf(c, m, t)

(***************************************************************************)
(* EnergyCostCalculator.__init__: the attributes of an instance.           *)
(***************************************************************************)
Flags(pv_to_community, storage_to_wholesale, community_to_home, community_to_storage, storage_to_community) ==
    [allow_pv_to_community |-> pv_to_community,
     allow_storage_to_wholesale |-> storage_to_wholesale,
     allow_community_to_home |-> community_to_home,
     allow_community_to_storage |-> community_to_storage,
     allow_storage_to_community |-> storage_to_community]

\* the defaults of __init__: every switchable channel is off
DefaultFlags == Flags(FALSE, FALSE, FALSE, FALSE, FALSE)

AllFlagsOn == Flags(TRUE, TRUE, TRUE, TRUE, TRUE)

Inputs(demand, solar_generation, grid_prices, eeg_prices, community_market_prices, wholesale_market_prices) ==
    [demand |-> demand, solar_generation |-> solar_generation,
     grid_prices |-> grid_prices, eeg_prices |-> eeg_prices,
     community_market_prices |-> community_market_prices,
     wholesale_market_prices |-> wholesale_market_prices]

\* self.* after __init__
Engine(storage, inputs, storage_use_cases, flags) ==
    [storage |-> storage, storage_use_cases |-> storage_use_cases] @@ inputs @@ flags

(***************************************************************************)
(* The inputs the model is run on.                                         *)
(***************************************************************************)
Const(v, n) == [i \in 1..n |-> v]

Zero3 == IntSeries(<<0, 0, 0>>)

\* tests/test_ECC.py, tests/test_BUC.py
TestInputs ==
    { Inputs(IntSeries(<<1, 1, 1>>), Zero3, IntSeries(<<0, 1, 1>>), Zero3, Zero3, Zero3),
      Inputs(IntSeries(<<2, 2, 0>>), Zero3, IntSeries(<<0, 10, 0>>), Zero3, Zero3, Zero3),
      Inputs(IntSeries(<<0, 0, 2>>), Zero3, IntSeries(<<5, -20, 5>>), Zero3, Zero3, Zero3),
      Inputs(Zero3, IntSeries(<<1, 0, 0>>), IntSeries(<<1, 1, 1>>),
             IntSeries(<<1, 2, 0>>), Zero3, Zero3),
      Inputs(IntSeries(<<0, 1, 0>>), IntSeries(<<1, 0, 0>>), Zero3, Zero3, Zero3,
             IntSeries(<<-10, 10, 0>>)) }

\* constant demand D at constant grid price p over three timesteps
ConstantInputs ==
    { Inputs(IntSeries(Const(D, 3)), Zero3, IntSeries(Const(p, 3)), Zero3, Zero3, Zero3) :
        D \in 0..MaxDemand, p \in 0..MaxPrice }

AllInputs == TestInputs \cup ConstantInputs

CRates == {Rat(1, 2), Rat(1, 1)}

Storages ==
    { Storage(0, r, v, Rat(1, 1), Rat(1, 1)) : r \in CRates, v \in 0..MaxVolume }

UseCaseLists == {AllUseCases, AllUseCases \ {"home"}, {"eeg"}, {"home"}}

FlagSets == {DefaultFlags, AllFlagsOn}

\* a unit storage: c_rate 1, one unit of volume, lossless
UnitStorage == Storage(0, Rat(1, 1), 1, Rat(1, 1), Rat(1, 1))

\* Storage(0, 1, 0, 1): the baseline of the tests
NoStorage == Storage(0, Rat(1, 1), 0, Rat(1, 1), Rat(1, 1))

\* tests/test_ECC.py, test_ECC_charge_discharge_eff: demand [1,1,1], price [0,1,1]
EfficiencyTestInputs ==
    Inputs(IntSeries(<<1, 1, 1>>), Zero3, IntSeries(<<0, 1, 1>>), Zero3, Zero3, Zero3)

\* its storages: c_rate 1, one unit of volume, half of the energy lost on the
\* way in, on the way out, or both
LossyStorages ==
    { Storage(0, Rat(1, 1), 1, Rat(1, 2), Rat(1, 1)),
      Storage(0, Rat(1, 1), 1, Rat(1, 1), Rat(1, 2)),
      Storage(0, Rat(1, 1), 1, Rat(1, 2), Rat(1, 2)) }

\* every storage on every input with the defaults of __init__, and the unit
\* storage and the zero-volume storage on the test inputs with every use-case
\* list and flag setting
Engines ==
    { Engine(s, i, AllUseCases, DefaultFlags) : s \in Storages, i \in AllInputs }
    \cup { Engine(s, i, u, f) :
              s \in {UnitStorage, NoStorage}, i \in TestInputs, u \in UseCaseLists, f \in FlagSets }
    \cup { Engine(s, EfficiencyTestInputs, AllUseCases, DefaultFlags) : s \in LossyStorages }

(***************************************************************************)
(* Spec: the solutions the engine's model admits, one timestep at a time.  *)
(***************************************************************************)
\* before the first timestep nothing flows and the storage is empty
NoFlows(c) ==
    [pv_to_eeg |-> 0, pv_to_wholesale |-> 0, pv_to_community |-> 0,
     pv_to_storage |-> [use \in c.storage_use_cases |-> 0], pv_to_home |-> 0,
     storage_to_home |-> 0, supplier_to_home |-> 0, community_to_home |-> 0,
     storage_to_eeg |-> 0, storage_to_wholesale |-> 0, storage_to_community |-> 0,
     wholesale_to_storage |-> 0, community_to_storage |-> 0, supplier_to_storage |-> 0,
     storage_level |-> [use \in c.storage_use_cases |-> 0]]

Idle ==
    /\ series = <<>>
    /\ call = <<>>
    /\ pc = "model"
    /\ eccs = <<>>
    /\ costs = <<>>
    /\ result = 0
    /\ is_optimized = FALSE
    /\ solution = <<>>
    /\ last = <<>>

Init ==
    /\ cfg \in Engines
    /\ timestep = 0
    /\ model = NoFlows(cfg)
    /\ previous = model.storage_level
    /\ objective = 0
    /\ Idle

\* the variables of the next timestep take values the constraints admit
LayTimestep ==
    /\ timestep < Horizon(cfg)
    /\ \E m \in Solutions(cfg, model.storage_level, timestep) :
          /\ model' = m
          /\ previous' = model.storage_level
          /\ objective' = objective + ObjectiveTerm(cfg, m, timestep)
    /\ timestep' = timestep + 1
    /\ UNCHANGED <<cfg, series, call, pc, eccs, costs, result, is_optimized, solution, last>>

Next == LayTimestep

Spec == Init /\ [][Next]_vars

(***************************************************************************)
(* Properties of the solutions the model admits (Spec).                    *)
(***************************************************************************)
\* a timestep has been laid out: model holds its values
Laid == timestep > 0

\* the timestep model holds the values of
Current == timestep - 1

FlowsIntoStorage ==
    SumOver(model.pv_to_storage, cfg.storage_use_cases)
    + model.supplier_to_storage + model.community_to_storage + model.wholesale_to_storage

FlowsOutOfStorage ==
    model.storage_to_eeg + model.storage_to_wholesale + model.storage_to_community
    + model.storage_to_home

TotalLevel == SumOver(model.storage_level, cfg.storage_use_cases)

\* C5: demand balance. In every solution, at every timestep, the flows that end
\* at the home (from storage, PV, supplier and community) add up to exactly the
\* demand of that timestep.
C5_DemandBalance ==
    Laid => model.storage_to_home + model.pv_to_home + model.supplier_to_home
            + model.community_to_home = cfg.demand.values[timestep]

\* a timestep whose demand is covered partly from storage and partly from the supplier
C5_Witness ==
    /\ Laid
    /\ model.storage_to_home > 0
    /\ model.supplier_to_home > 0

\* the engine of test_ECC_c_rate: c_rate 0.5, volume 2, demand [2,2,0], grid price [0,10,0]
CRateTestEngine ==
    Engine(Storage(0, Rat(1, 2), 2, Rat(1, 1), Rat(1, 1)),
           Inputs(IntSeries(<<2, 2, 0>>), Zero3, IntSeries(<<0, 10, 0>>), Zero3, Zero3, Zero3),
           AllUseCases, DefaultFlags)

\* C6: charge and discharge capacity. In every solution, at every timestep, the
\* flows into storage add up to at most c_rate * volume and so do the flows out
\* of storage; with c_rate 0.5, volume 2, demand [2,2,0] and grid price [0,10,0]
\* no schedule does better than -10.
C6_ChargeDischargeCapacity ==
    /\ Laid =>
          /\ FlowsIntoStorage * cfg.storage.c_rate.den
                <= cfg.storage.c_rate.num * cfg.storage.volume
          /\ FlowsOutOfStorage * cfg.storage.c_rate.den
                <= cfg.storage.c_rate.num * cfg.storage.volume
    /\ (cfg = CRateTestEngine /\ timestep = Horizon(cfg)) => objective <= -10

\* the schedule of test_ECC_c_rate that reaches -10: one unit charged at price 0
C6_Witness ==
    /\ cfg = CRateTestEngine
    /\ timestep = Horizon(cfg)
    /\ objective = -10

\* the charging flow from outside that the claim attributes to a use case
ExternalCharge(use) ==
    CASE use = "home" -> model.supplier_to_storage
      [] use = "community" -> model.community_to_storage
      [] use = "wholesale" -> model.wholesale_to_storage
      [] use = "eeg" -> 0

\* the storage flow to the channel of a use case
Outflow(use) ==
    CASE use = "home" -> model.storage_to_home
      [] use = "community" -> model.storage_to_community
      [] use = "wholesale" -> model.storage_to_wholesale
      [] use = "eeg" -> model.storage_to_eeg

\* C7: per-use-case state of charge. For every active use case the level at a
\* timestep is the level before (0 at the first timestep) plus PV->storage(use)
\* plus the external charging flow of the use case minus its discharge flow.
C7_SocRecurrence ==
    Laid => \A use \in cfg.storage_use_cases :
                model.storage_level[use]
                    = (IF Current = 0 THEN 0 ELSE previous[use])
                      + model.pv_to_storage[use] + ExternalCharge(use) - Outflow(use)

\* C8: aggregate level bounds. In every solution, at every timestep, the levels
\* of the active use cases add up to at least 0 and at most the volume.
C8_AggregateLevelBounds ==
    Laid => (0 <= TotalLevel /\ TotalLevel <= cfg.storage.volume)

\* a full storage whose content is split over two use cases
C8_Witness ==
    /\ Laid
    /\ TotalLevel = cfg.storage.volume
    /\ \E u, v \in cfg.storage_use_cases :
          u # v /\ model.storage_level[u] > 0 /\ model.storage_level[v] > 0

\* the flow variables the claim attributes to a use case
AttributedFlows(use) ==
    CASE use = "home" -> {"storage_to_home", "supplier_to_storage"}
      [] use = "community" -> {"storage_to_community", "community_to_storage"}
      [] use = "wholesale" -> {"storage_to_wholesale", "wholesale_to_storage"}
      [] use = "eeg" -> {"storage_to_eeg"}

\* C9: a use case left out of storage_use_cases has no flow variable and no
\* level variable in the model (with 'home' left out: no storage->home flow and
\* no grid->storage flow).
C9_OmittedUseCaseHasNoVariables ==
    Laid => \A use \in AllUseCases \ cfg.storage_use_cases :
                /\ AttributedFlows(use) \cap DOMAIN model = {}
                /\ use \notin DOMAIN model.pv_to_storage
                /\ use \notin DOMAIN model.storage_level

\* C13: a storage with volume 0 forces every storage flow to zero. In every
\* solution, at every timestep, every flow into the storage, every flow out of
\* it and every per-use-case level is 0, whatever the c_rate.
C13_ZeroVolumeNoStorageFlows ==
    (Laid /\ cfg.storage.volume = 0) =>
        /\ \A use \in cfg.storage_use_cases :
              model.pv_to_storage[use] = 0 /\ model.storage_level[use] = 0
        /\ model.supplier_to_storage = 0
        /\ model.community_to_storage = 0
        /\ model.wholesale_to_storage = 0
        /\ model.storage_to_eeg = 0
        /\ model.storage_to_wholesale = 0
        /\ model.storage_to_community = 0
        /\ model.storage_to_home = 0

\* a zero-volume storage with every channel open, at a timestep whose
\* generation could be stored but is sold
C13_Witness ==
    /\ Laid
    /\ cfg.storage.volume = 0
    /\ cfg.allow_community_to_storage /\ cfg.allow_storage_to_community
    /\ iloc(cfg.solar_generation, Current) > 0
    /\ model.pv_to_eeg = iloc(cfg.solar_generation, Current)

\* the variables set_model_variables creates, whatever the flags
ModelVariables ==
    {"pv_to_eeg", "pv_to_wholesale", "pv_to_community", "pv_to_storage", "pv_to_home",
     "storage_level", "storage_to_eeg", "storage_to_wholesale", "storage_to_community",
     "storage_to_home", "wholesale_to_storage", "community_to_storage",
     "community_to_home", "supplier_to_storage", "supplier_to_home"}

\* C15: disabled channels are zero-bounded, not removed. For each of the flags
\* PV->community, storage->wholesale, storage->community, community->storage
\* and community->home: with the flag off the flow is 0 at every timestep of
\* every solution, and the model has the same variables as with the flag on.
C15_DisabledChannelsAreZero ==
    Laid =>
        /\ ~cfg.allow_pv_to_community => model.pv_to_community = 0
        /\ ~cfg.allow_storage_to_wholesale => model.storage_to_wholesale = 0
        /\ ~cfg.allow_storage_to_community => model.storage_to_community = 0
        /\ ~cfg.allow_community_to_storage => model.community_to_storage = 0
        /\ ~cfg.allow_community_to_home => model.community_to_home = 0
        /\ DOMAIN model = ModelVariables

\* every channel off, at a timestep with generation to sell, demand to cover
\* and energy in the storage: only the bounds keep the flows at 0
C15_Witness ==
    /\ Laid
    /\ cfg.allow_pv_to_community = FALSE /\ cfg.allow_community_to_home = FALSE
    /\ cfg.allow_storage_to_wholesale = FALSE
    /\ \E i \in 1..Horizon(cfg) : cfg.solar_generation.values[i] > 0
    /\ iloc(cfg.demand, Current) > 0
    /\ TotalLevel > 0

\* the engine of test_ECC_charge_discharge_eff with the given efficiencies
EfficiencyTestEngine(charge_efficiency, discharge_efficiency) ==
    Engine(Storage(0, Rat(1, 1), 1, charge_efficiency, discharge_efficiency),
           EfficiencyTestInputs, AllUseCases, DefaultFlags)

\* C23: the state-of-charge recurrence applies the storage efficiencies. Energy
\* charged raises the level by charge_efficiency times the inflow, energy
\* delivered lowers it by the outflow divided by discharge_efficiency (stated
\* for the use cases eeg and home; fractions cleared).  With demand [1,1,1],
\* grid price [0,1,1], c_rate 1 and volume 1 no schedule does better than -1.5
\* with efficiencies 0.5 / 1, than -1.5 with 1 / 0.5, than -1.75 with 0.5 / 0.5.
C23_EfficienciesInRecurrence ==
    /\ Laid =>
          \A use \in cfg.storage_use_cases \cap {"eeg", "home"} :
              LET ce == cfg.storage.charge_efficiency
                  de == cfg.storage.discharge_efficiency
              IN  model.storage_level[use] * ce.den * de.num
                      = previous[use] * ce.den * de.num
                        + (model.pv_to_storage[use] + ExternalCharge(use)) * ce.num * de.num
                        - Outflow(use) * de.den * ce.den
    /\ timestep = Horizon(cfg) =>
          /\ cfg = EfficiencyTestEngine(Rat(1, 2), Rat(1, 1)) => 2 * objective <= -3
          /\ cfg = EfficiencyTestEngine(Rat(1, 1), Rat(1, 2)) => 2 * objective <= -3
          /\ cfg = EfficiencyTestEngine(Rat(1, 2), Rat(1, 2)) => 4 * objective <= -7

\* what is bought at the timestep: from the supplier, the wholesale market and
\* the community, for the home and for the storage
Purchases ==
    model.supplier_to_home + model.supplier_to_storage + model.wholesale_to_storage
    + model.community_to_storage + model.community_to_home

\* the largest price, by magnitude, that values a flow of timestep t
PriceMagnitude(c, t) ==
    SetMax({ Magnitude(iloc(c[name], t)) :
               name \in {"grid_prices", "eeg_prices", "community_market_prices",
                         "wholesale_market_prices"} })

\* c_rate.den times the most the cash flow of timestep t can amount to: every
\* flow valued at the largest price, the flows limited by demand, generation
\* and the charge and the discharge capacity
TermBound(c, t) ==
    PriceMagnitude(c, t)
    * ((iloc(c.demand, t) + iloc(c.solar_generation, t)) * c.storage.c_rate.den
       + 2 * c.storage.c_rate.num * c.storage.volume)

\* C28: the model is always feasible and bounded for physical inputs. Whatever
\* has been laid out, the next timestep has a schedule that satisfies all
\* constraints; purchases are limited by demand plus charge capacity,
\* deliveries from the storage by the discharge capacity, PV flows by the
\* generation, and the objective by the prices times these limits.
C28_FeasibleAndBounded ==
    /\ timestep < Horizon(cfg) => Solutions(cfg, model.storage_level, timestep) # {}
    /\ Laid =>
          /\ Purchases * cfg.storage.c_rate.den
                <= iloc(cfg.demand, Current) * cfg.storage.c_rate.den
                   + cfg.storage.c_rate.num * cfg.storage.volume
          /\ FlowsOutOfStorage * cfg.storage.c_rate.den
                <= cfg.storage.c_rate.num * cfg.storage.volume
          /\ model.pv_to_eeg + model.pv_to_wholesale + model.pv_to_community
                + model.pv_to_home + SumOver(model.pv_to_storage, cfg.storage_use_cases)
                <= iloc(cfg.solar_generation, Current)
    /\ Magnitude(objective) * cfg.storage.c_rate.den
          <= SumOver([k \in 1..timestep |-> TermBound(cfg, k - 1)], 1..timestep)

\* a timestep with a negative grid price and no demand: the storage is charged
\* from the supplier up to its capacity, and no further
C28_Witness ==
    /\ Laid
    /\ iloc(cfg.grid_prices, Current) < 0
    /\ iloc(cfg.demand, Current) = 0
    /\ model.supplier_to_storage > 0
    /\ Purchases * cfg.storage.c_rate.den = cfg.storage.c_rate.num * cfg.storage.volume
    /\ cfg.storage.volume < FlowMax(cfg)

(***************************************************************************)
(* EnergyCostCalculator.optimize: the solver maximises the objective over  *)
(* the schedules the constraints admit.  Timesteps are coupled by the      *)
(* storage levels alone, so the maximum is taken timestep by timestep.     *)
(***************************************************************************)
EmptyLevels(c) == [use \in c.storage_use_cases |-> 0]

\* of the pairs <<levels, objective>> in S, the best objective for each levels
BestPerLevel(S) ==
    { <<l, SetMax({ x[2] : x \in { y \in S : y[1] = l } })>> : l \in { x[1] : x \in S } }

RECURSIVE BestFrom(_, _, _)
\* reached holds, for the storage levels a schedule of the timesteps before t
\* can end in, the largest objective of such a schedule
BestFrom(c, reached, t) ==
    IF t >= Horizon(c) THEN SetMax({ x[2] : x \in reached })
    ELSE BestFrom(c,
                  BestPerLevel(UNION { { <<m.storage_level, x[2] + ObjectiveTerm(c, m, t)>> :
                                           m \in Solutions(c, x[1], t) } : x \in reached }),
                  t + 1)

\* optimize(): self.model.objective() after the solve
optimize(c) == BestFrom(c, {<<EmptyLevels(c), 0>>}, 0)

(***************************************************************************)
(* EnergyCostCalculator.__check_timeseries_indices__, on the caller's      *)
(* series objects: the instance keeps references, so an index it replaces  *)
(* is replaced for the caller too.                                         *)
(***************************************************************************)
attrs == <<"solar_generation", "grid_prices", "eeg_prices",
           "community_market_prices", "wholesale_market_prices">>

\* series.index = self.timesteps
WithIntegerIndex(s) == Series("int", RangeLabels(Len(s.values)), s.values)

RECURSIVE CheckFrom(_, _, _)
\* the loop over attrs from position k; timestamps is the copy of demand's index
CheckFrom(sr, timestamps, k) ==
    IF k > Len(attrs) THEN [series |-> sr, raised |-> FALSE]
    ELSE LET name == attrs[k] IN
         IF ~IndexEquals(IndexOf(sr[name]), timestamps)
         THEN [series |-> sr, raised |-> TRUE]
         ELSE IF sr[name].kind = "datetime"
              THEN CheckFrom([sr EXCEPT ![name] = WithIntegerIndex(@)], timestamps, k + 1)
              ELSE CheckFrom(sr, timestamps, k + 1)

check_timeseries_indices(sr) == CheckFrom(sr, IndexOf(sr.demand), 1)

(***************************************************************************)
(* battery_utility_calculator.py: calculate_storage_worth and              *)
(* calculate_multiple_storage_worth.                                       *)
(***************************************************************************)
\* the storage the k-th engine of the call is built with: the baseline first
StorageOf(cl, k) ==
    IF k = 1 THEN cl.baseline_storage ELSE cl.storages_to_calculate[k - 1]

\* the flags the call hands to ECC(...): calculate_storage_worth has no
\* allow_storage_to_community parameter, so the engine keeps its default
FlagsOf(cl) ==
    IF cl.fn = "calculate_storage_worth"
    THEN [cl.flags EXCEPT !.allow_storage_to_community = FALSE]
    ELSE cl.flags

\* the difference taken the other way round
WorthSwapped(to_calc_costs, baseline_costs) == baseline_costs - to_calc_costs

\* storage worth is difference between baseline and new storage
Worth(to_calc_costs, baseline_costs) == to_calc_costs - baseline_costs

\* a row whose costs column holds the worth
RowWithWorthAsCosts(storage, row_costs, worth) ==
    [id |-> storage.id, c_rate |-> storage.c_rate, volume |-> storage.volume,
     charge_efficiency |-> storage.charge_efficiency,
     discharge_efficiency |-> storage.discharge_efficiency,
     costs |-> worth, worth |-> worth]

\* one row of the table calculate_multiple_storage_worth returns
Row(storage, row_costs, worth) ==
    [id |-> storage.id, c_rate |-> storage.c_rate, volume |-> storage.volume,
     charge_efficiency |-> storage.charge_efficiency,
     discharge_efficiency |-> storage.discharge_efficiency,
     costs |-> row_costs, worth |-> worth]

\* ECC(storage=..., demand=demand, ...): __init__ up to the built model
Construct ==
    /\ pc = "construct"
    /\ LET checked == check_timeseries_indices(series)
           storage == StorageOf(call, Len(eccs) + 1)
       IN  /\ series' = checked.series
           /\ IF checked.raised
              THEN /\ pc' = "raised"
                   /\ UNCHANGED <<cfg, eccs>>
              ELSE /\ pc' = "optimize"
                   /\ cfg' = Engine(storage, checked.series, call.storage_use_cases,
                                    FlagsOf(call))
                   /\ eccs' = Append(eccs, cfg')
    /\ UNCHANGED <<timestep, model, previous, objective, call, costs, result>>
    /\ UNCHANGED <<is_optimized, solution, last>>

\* <ecc>.optimize(solver=solver), and what the function does with the costs
Optimize ==
    /\ pc = "optimize"
    /\ LET ecc_costs == optimize(cfg)
           all == Append(costs, ecc_costs)
           n == Len(all)
       IN  /\ costs' = all
           /\ IF call.fn = "calculate_storage_worth"
              THEN IF n = 2
                   THEN /\ result' = Worth(all[2], all[1])
                        /\ pc' = "returned"
                   ELSE /\ UNCHANGED result
                        /\ pc' = "construct"
              ELSE /\ result' = Append(result,
                                       Row(cfg.storage, ecc_costs,
                                           IF n = 1 THEN 0 ELSE Worth(ecc_costs, all[1])))
                   /\ pc' = IF n = Len(call.storages_to_calculate) + 1
                            THEN "returned" ELSE "construct"
    /\ UNCHANGED <<cfg, timestep, model, previous, objective, series, call, eccs>>
    /\ UNCHANGED <<is_optimized, solution, last>>

\* the caller's series, all with the same kind of index
WithIndex(i, kind) ==
    [name \in DOMAIN i |-> Series(kind, i[name].labels, i[name].values)]

\* calculate_storage_worth(baseline, candidate, ...)
SingleCall(b, s, u, f) ==
    [fn |-> "calculate_storage_worth", baseline_storage |-> b,
     storages_to_calculate |-> <<s>>, storage_use_cases |-> u, flags |-> f]

\* calculate_multiple_storage_worth(baseline, candidates, ...)
MultipleCall(b, ss, u, f) ==
    [fn |-> "calculate_multiple_storage_worth", baseline_storage |-> b,
     storages_to_calculate |-> ss, storage_use_cases |-> u, flags |-> f]

SingleCalls ==
    { SingleCall(b, s, AllUseCases, DefaultFlags) :
        b \in {NoStorage, UnitStorage}, s \in Storages }
    \cup { SingleCall(NoStorage, UnitStorage, u, f) : u \in UseCaseLists, f \in FlagSets }

MultipleCalls ==
    { MultipleCall(NoStorage, ab, AllUseCases, DefaultFlags) :
        ab \in { x \in Storages \X Storages : x[1].volume <= x[2].volume } }

\* the calls the model runs, each with the caller's series: the test inputs
\* with a default integer index under every call, the constant inputs under
\* the single valuations, and the test inputs with an hourly DatetimeIndex
\* (as tests/test_ECC.py builds them) under one call of each function
Cases ==
    { <<WithIndex(i, "int"), cl>> : i \in TestInputs, cl \in SingleCalls \cup MultipleCalls }
    \cup { <<WithIndex(i, "int"), SingleCall(NoStorage, s, AllUseCases, DefaultFlags)>> :
              i \in ConstantInputs, s \in Storages }
    \cup { <<WithIndex(i, "datetime"), cl>> :
              i \in TestInputs,
              cl \in { SingleCall(NoStorage, UnitStorage, AllUseCases, DefaultFlags),
                       MultipleCall(NoStorage, <<UnitStorage, UnitStorage>>,
                                    AllUseCases, DefaultFlags) } }

InitWorth ==
    /\ \E case \in Cases : series = case[1] /\ call = case[2]
    /\ pc = "construct"
    /\ eccs = <<>>
    /\ costs = <<>>
    /\ result = IF call.fn = "calculate_storage_worth" THEN 0 ELSE <<>>
    /\ cfg = <<>>
    /\ timestep = 0
    /\ model = <<>>
    /\ previous = <<>>
    /\ objective = 0
    /\ is_optimized = FALSE
    /\ solution = <<>>
    /\ last = <<>>

NextWorth == Construct \/ Optimize

SpecWorth == InitWorth /\ [][NextWorth]_vars

(***************************************************************************)
(* Properties of the valuation functions (SpecWorth).                      *)
(***************************************************************************)
Returned(fn) == pc = "returned" /\ call.fn = fn

\* what two engine instances share: everything but the storage
SameButStorage(a, b) ==
    \A name \in DOMAIN a \ {"storage"} : a[name] = b[name]

ValuesOf(sr) == [name \in DOMAIN sr |-> sr[name].values]

\* the inputs of test_calculate_storage_worth: demand [1,1,1], grid price [0,1,1]
CheapFirstValues ==
    ValuesOf(Inputs(IntSeries(<<1, 1, 1>>), Zero3, IntSeries(<<0, 1, 1>>), Zero3, Zero3, Zero3))

\* C1: calculate_storage_worth builds and solves two engines, the first with
\* the baseline storage and the second with the candidate, both with the same
\* series, use-case list and channel flags, and returns the candidate's
\* objective minus the baseline's.
C1_WorthIsDifference ==
    Returned("calculate_storage_worth") =>
        /\ Len(eccs) = 2 /\ Len(costs) = 2
        /\ eccs[1].storage = call.baseline_storage
        /\ eccs[2].storage = call.storages_to_calculate[1]
        /\ SameButStorage(eccs[1], eccs[2])
        /\ eccs[2].storage_use_cases = call.storage_use_cases
        /\ \A name \in DOMAIN series : eccs[2][name].values = series[name].values
        /\ \A flag \in DOMAIN call.flags \ {"allow_storage_to_community"} :
              eccs[2][flag] = call.flags[flag]
        /\ result = costs[2] - costs[1]

\* test_calculate_storage_worth: the unit storage is worth 1 against no storage
C1_Witness ==
    /\ Returned("calculate_storage_worth")
    /\ ValuesOf(series) = CheapFirstValues
    /\ call.baseline_storage = NoStorage
    /\ call.storages_to_calculate = <<UnitStorage>>
    /\ costs = <<-2, -1>>
    /\ result = 1

\* a <= b for fractions
RatLeq(a, b) == a.num * b.den <= b.num * a.den

\* C2: monotonicity of worth. Of two candidates valued in one call (same
\* series, use cases, flags and baseline), the one with at least the volume and
\* at least the c_rate of the other is worth at least as much.
C2_WorthMonotone ==
    Returned("calculate_multiple_storage_worth") =>
        \A i, j \in 2..Len(result) :
            (result[i].volume <= result[j].volume /\ RatLeq(result[i].c_rate, result[j].c_rate))
                => result[i].worth <= result[j].worth

\* test_calculate_multiple_storage_worth: volume 1 is worth 1, volume 2 is worth 2
C2_Witness ==
    /\ Returned("calculate_multiple_storage_worth")
    /\ ValuesOf(series) = CheapFirstValues
    /\ result[2].volume = 1 /\ result[2].worth = 1
    /\ result[3].volume = 2 /\ result[3].worth = 2
    /\ result[2].c_rate = result[3].c_rate

\* -(sum over t of demand[t] * grid_price[t])
RECURSIVE GridPurchase(_, _)
GridPurchase(c, n) ==
    IF n = 0 THEN 0
    ELSE GridPurchase(c, n - 1) - c.demand.values[n] * c.grid_prices.values[n]

NoSolar(c) == \A i \in 1..Horizon(c) : c.solar_generation.values[i] = 0

CommunityOff(c) ==
    /\ ~c.allow_pv_to_community /\ ~c.allow_community_to_home
    /\ ~c.allow_community_to_storage /\ ~c.allow_storage_to_community

IsConstant(sr, v) == \A i \in 1..Len(sr.values) : sr.values[i] = v

\* C3: with a zero-capacity storage, no solar generation and the community
\* channels off, optimize returns the pure grid purchase cost
\* -(sum of demand[t] * grid_price[t]); for constant demand D and price p over
\* T timesteps that is -D*p*T, and for demand [1,1,1] at [0,1,1] it is -2.
C3_NoStorageIsGridPurchase ==
    \A k \in 1..Len(costs) :
        (eccs[k].storage.volume = 0 /\ NoSolar(eccs[k]) /\ CommunityOff(eccs[k])) =>
            /\ costs[k] = GridPurchase(eccs[k], Horizon(eccs[k]))
            /\ \A D \in 0..MaxDemand, p \in 0..MaxPrice :
                  (IsConstant(eccs[k].demand, D) /\ IsConstant(eccs[k].grid_prices, p))
                      => costs[k] = -(D * p * Horizon(eccs[k]))
            /\ (eccs[k].demand.values = <<1, 1, 1>> /\ eccs[k].grid_prices.values = <<0, 1, 1>>)
                  => costs[k] = -2

\* test scenario 1: no storage, demand [1,1,1], grid price [0,1,1], objective -2
C3_Witness ==
    /\ Len(costs) >= 1
    /\ eccs[1].storage.volume = 0
    /\ ValuesOf(series) = CheapFirstValues
    /\ CommunityOff(eccs[1])
    /\ costs[1] = -2

\* C4: optimize returns the best schedule, which uses the storage to shift
\* cheap energy: demand [1,1,1], grid price [0,1,1], all else 0, the default
\* use cases and channel switches and a lossless storage with c_rate 1 and
\* volume 1 give objective -1, so the storage is worth 1 against a zero-volume
\* baseline.
C4_StorageShiftsCheapEnergy ==
    ( /\ Returned("calculate_storage_worth")
      /\ ValuesOf(series) = CheapFirstValues
      /\ call.storage_use_cases = AllUseCases
      /\ call.flags = DefaultFlags
      /\ call.baseline_storage.volume = 0
      /\ call.storages_to_calculate = <<UnitStorage>> ) =>
        /\ costs[2] = -1
        /\ result = 1

\* the valuation of test_calculate_storage_worth has returned
C4_Witness ==
    /\ Returned("calculate_storage_worth")
    /\ ValuesOf(series) = CheapFirstValues
    /\ call.storage_use_cases = AllUseCases
    /\ call.flags = DefaultFlags
    /\ call.baseline_storage.volume = 0
    /\ call.storages_to_calculate = <<UnitStorage>>
    /\ eccs[2].storage = UnitStorage
    /\ costs[2] = -1

\* C10: instances are independent. Constructing and solving an engine leaves
\* the caller's series as they were (values and index), so the next instance
\* built from the same series is constructed successfully, for integer-indexed
\* and for datetime-indexed inputs alike.
C10_InstancesIndependent ==
    /\ pc # "raised"
    /\ \A name \in DOMAIN series : IndexOf(series[name]) = IndexOf(series.demand)

\* the columns of the table that describe the storage of a row
StorageColumns == {"id", "c_rate", "volume", "charge_efficiency", "discharge_efficiency"}

TableColumns == StorageColumns \cup {"costs", "worth"}

\* C20: calculate_multiple_storage_worth solves once for the baseline and once
\* per candidate and returns a table whose row 0 is the baseline with worth 0
\* and whose following rows are the candidates in input order, each with its
\* id, c_rate, volume and efficiencies, its own objective as costs and its
\* costs minus the baseline's costs as worth, whatever the other candidates.
C20_MultipleWorthTable ==
    Returned("calculate_multiple_storage_worth") =>
        LET n == Len(call.storages_to_calculate) IN
        /\ Len(eccs) = n + 1 /\ Len(costs) = n + 1 /\ Len(result) = n + 1
        /\ eccs[1].storage = call.baseline_storage
        /\ \A k \in 1..n :
              /\ eccs[k + 1].storage = call.storages_to_calculate[k]
              /\ SameButStorage(eccs[1], eccs[k + 1])
        /\ \A k \in 1..(n + 1) :
              /\ DOMAIN result[k] = TableColumns
              /\ \A column \in StorageColumns : result[k][column] = eccs[k].storage[column]
              /\ result[k].costs = optimize(eccs[k])
              /\ result[k].worth = IF k = 1 THEN 0 ELSE optimize(eccs[k]) - optimize(eccs[1])

\* test_calculate_multiple_storage_worth: costs -2, -1, 0 and worth 0, 1, 2
C20_Witness ==
    /\ Returned("calculate_multiple_storage_worth")
    /\ ValuesOf(series) = CheapFirstValues
    /\ call.storages_to_calculate =
          <<UnitStorage, Storage(0, Rat(1, 1), 2, Rat(1, 1), Rat(1, 1))>>
    /\ [k \in 1..3 |-> result[k].costs] = <<-2, -1, 0>>
    /\ [k \in 1..3 |-> result[k].worth] = <<0, 1, 2>>

(***************************************************************************)
(* SpecEngine: one EnergyCostCalculator instance, from the call of its     *)
(* constructor through optimize and the result-extraction methods.         *)
(***************************************************************************)
\* Python's None, pandas' NaN, and a cell that holds a value
None == [none |-> TRUE]

NaN == [nan |-> TRUE]

Cell(v) == [value |-> v]

\* the parameters of Storage.__init__ and those without a default
StorageParameters == {"id", "c_rate", "volume", "charge_efficiency", "discharge_efficiency"}

RequiredStorageParameters == {"id", "c_rate", "volume"}

\* the keywords of the call Storage(id=0, c_rate=1, volume=0, efficiency=1)
SentinelKeywords == {"id", "c_rate", "volume", "efficiency"}

\* a call by keywords binds when every keyword is a parameter and every
\* parameter without a default is given; otherwise Python raises TypeError
Binds(parameters, required, keywords) ==
    keywords \subseteq parameters /\ required \subseteq keywords

\* the parameters of EnergyCostCalculator.__init__ and those without a default
EngineParameters ==
    {"storage", "demand", "solar_generation", "grid_prices", "eeg_prices",
     "community_market_prices", "wholesale_market_prices", "storage_use_cases",
     "allow_pv_to_community", "allow_storage_to_wholesale", "allow_community_to_home",
     "allow_community_to_storage", "allow_storage_to_community"}

RequiredEngineParameters ==
    {"storage", "demand", "solar_generation", "grid_prices", "eeg_prices",
     "community_market_prices", "wholesale_market_prices"}

\* the keywords of a call of the constructor: the storage, the series, the
\* use-case list, the flags, and whatever else the caller passes by name
Keywords(cl) ==
    {"storage", "storage_use_cases"} \cup DOMAIN cl.given \cup DOMAIN cl.flags
    \cup DOMAIN cl.options

\* the outcome of a method call: the error it raised, or the value it returned
Raised(op, error) == [op |-> op, raised |-> error, value |-> None]

ReturnedValue(op, value) == [op |-> op, raised |-> "none", value |-> value]

\* the series that value the flows
PriceSeries == {"grid_prices", "eeg_prices", "community_market_prices", "wholesale_market_prices"}

\* label in series.index
HasLabel(s, label) == \E i \in 1..Len(s.labels) : s.labels[i] = label

\* set_model_objective reads <prices>.loc[timestep] for every timestep of
\* range(len(demand)): a timestep that is no label of the index is a KeyError
PriceKeyError(sr) ==
    \E name \in PriceSeries, t \in 0..(Len(sr.demand.values) - 1) : ~HasLabel(sr[name], t)

\* EnergyCostCalculator(storage=..., demand=..., ...): __init__
EnergyCostCalculator ==
    /\ pc = "call"
    /\ IF \/ ~Binds(EngineParameters, RequiredEngineParameters, Keywords(call))
          \/ /\ call.storage = None
             /\ ~Binds(StorageParameters, RequiredStorageParameters, SentinelKeywords)
       THEN /\ pc' = "failed"
            /\ last' = Raised("__init__", "TypeError")
            /\ UNCHANGED <<cfg, series>>
       ELSE LET storage == IF call.storage = None THEN NoStorage ELSE call.storage
                checked == check_timeseries_indices(series)
            IN  /\ series' = checked.series
                /\ IF checked.raised
                   THEN /\ pc' = "failed"
                        /\ last' = Raised("__init__", "ValueError")
                        /\ UNCHANGED cfg
                   ELSE IF PriceKeyError(checked.series)
                        THEN /\ pc' = "failed"
                             /\ last' = Raised("__init__", "KeyError")
                             /\ UNCHANGED cfg
                        ELSE /\ pc' = "built"
                             /\ cfg' = Engine(storage, checked.series,
                                              call.storage_use_cases, call.flags)
                             /\ last' = ReturnedValue("__init__", None)
    /\ is_optimized' = FALSE
    /\ solution' = <<>>
    /\ UNCHANGED <<timestep, model, previous, objective, call, eccs, costs, result>>

\* of the schedules in S, one with the best objective for each storage level
OnePerLevel(S) ==
    { CHOOSE x \in S : x.level = b[1] /\ x.obj = b[2] :
        b \in BestPerLevel({ <<x.level, x.obj>> : x \in S }) }

RECURSIVE SolveFrom(_, _, _)
\* optimizer.solve: as BestFrom, keeping with each level a schedule that reaches
\* it with the best objective; no schedule at all when the model is infeasible
SolveFrom(c, reached, t) ==
    IF reached = {} THEN [feasible |-> FALSE, objective |-> 0, values |-> <<>>]
    ELSE IF t >= Horizon(c)
         THEN LET best == CHOOSE x \in reached : \A y \in reached : y.obj <= x.obj
              IN  [feasible |-> TRUE, objective |-> best.obj, values |-> best.path]
         ELSE SolveFrom(c,
                        OnePerLevel(UNION { { [level |-> m.storage_level,
                                               obj |-> x.obj + ObjectiveTerm(c, m, t),
                                               path |-> Append(x.path, m)] :
                                                 m \in Solutions(c, x.level, t) } :
                                            x \in reached }),
                        t + 1)

solve(c) == SolveFrom(c, {[level |-> EmptyLevels(c), obj |-> 0, path |-> <<>>]}, 0)

\* The solver named by the caller.  It may not be installed.  When the model
\* has no solution, an interface that loads the solution itself ("appsi")
\* raises inside solve(); a "legacy" interface logs a warning, loads nothing
\* and returns.
Solvers == [installed : BOOLEAN, interface : {"appsi", "legacy"}]

\* optimize(solver)
OptimizeEngine ==
    /\ pc = "built"
    /\ \E solver \in Solvers :
          IF ~solver.installed
          THEN /\ last' = Raised("optimize", "ApplicationError")
               /\ UNCHANGED <<is_optimized, solution>>
          ELSE LET solved == solve(cfg) IN
               IF solved.feasible
               THEN /\ solution' = solved.values
                    /\ is_optimized' = TRUE
                    /\ last' = ReturnedValue("optimize", Cell(solved.objective))
               ELSE IF solver.interface = "appsi"
                    THEN /\ last' = Raised("optimize", "RuntimeError")
                         /\ UNCHANGED <<is_optimized, solution>>
                    ELSE \* solve() returned; self.model.objective() finds no values
                         /\ is_optimized' = TRUE
                         /\ last' = Raised("optimize", "ValueError")
                         /\ UNCHANGED solution
    /\ UNCHANGED <<cfg, timestep, model, previous, objective, series, call, pc, eccs, costs, result>>

\* pd.DataFrame(index=self.timesteps)
FrameIndex(c) == [kind |-> "int", labels |-> RangeLabels(Horizon(c))]

\* frame[column] = series: the series is aligned to the labels of the frame
AlignedColumn(index, s) ==
    [i \in 1..Len(index.labels) |->
        IF s.kind = index.kind /\ \E j \in 1..Len(s.labels) : s.labels[j] = index.labels[i]
        THEN Cell(s.values[CHOOSE j \in 1..Len(s.labels) : s.labels[j] = index.labels[i]])
        ELSE NaN]

\* [self.model.<name>[t].value for t in self.timesteps]
VarColumn(c, sol, name) ==
    [i \in 1..Horizon(c) |-> IF sol = <<>> THEN None ELSE Cell(sol[i][name])]

\* [self.model.<name>[t, use].value for t in self.timesteps]
IndexedVarColumn(c, sol, name, use) ==
    [i \in 1..Horizon(c) |-> IF sol = <<>> THEN None ELSE Cell(sol[i][name][use])]

DemandCoverageTable(c, sol) ==
    [index |-> FrameIndex(c),
     columns |-> [demand |-> AlignedColumn(FrameIndex(c), c.demand),
                  from_grid |-> VarColumn(c, sol, "supplier_to_home"),
                  from_pv |-> VarColumn(c, sol, "pv_to_home"),
                  from_storage |-> VarColumn(c, sol, "storage_to_home"),
                  from_community |-> VarColumn(c, sol, "community_to_home")]]

\* self.model.pv_to_storage[t, use] for a use the variable is not indexed by
SolarGenerationKeyError(c) == ~(AllUseCases \subseteq c.storage_use_cases)

SolarGenerationTable(c, sol) ==
    [index |-> FrameIndex(c),
     columns |-> [generation |-> AlignedColumn(FrameIndex(c), c.solar_generation),
                  to_home |-> VarColumn(c, sol, "pv_to_home"),
                  to_eeg |-> VarColumn(c, sol, "pv_to_eeg"),
                  to_community |-> VarColumn(c, sol, "pv_to_community"),
                  to_wholesale |-> VarColumn(c, sol, "pv_to_wholesale"),
                  to_storage |-> [use \in AllUseCases |->
                                     IndexedVarColumn(c, sol, "pv_to_storage", use)]]]

StorageTable(c, sol) ==
    [index |-> FrameIndex(c),
     columns |-> [soc |-> [use \in c.storage_use_cases |->
                              IndexedVarColumn(c, sol, "storage_level", use)]]]

\* what a result-extraction method leaves as it is: everything but its outcome
Untouched == <<cfg, timestep, model, previous, objective, series, call, pc, eccs, costs, result, is_optimized, solution>>

get_demand_coverage_timeseries_df ==
    /\ pc = "built"
    /\ last' = ReturnedValue("get_demand_coverage_timeseries_df",
                             DemandCoverageTable(cfg, solution))
    /\ UNCHANGED Untouched

get_solar_generation_timeseries_df ==
    /\ pc = "built"
    /\ last' = IF SolarGenerationKeyError(cfg)
               THEN Raised("get_solar_generation_timeseries_df", "KeyError")
               ELSE ReturnedValue("get_solar_generation_timeseries_df",
                                  SolarGenerationTable(cfg, solution))
    /\ UNCHANGED Untouched

get_storage_timeseries_df ==
    /\ pc = "built"
    /\ last' = ReturnedValue("get_storage_timeseries_df", StorageTable(cfg, solution))
    /\ UNCHANGED Untouched

output_results ==
    /\ pc = "built"
    /\ last' = IF ~is_optimized THEN Raised("output_results", "ValueError")
               ELSE IF SolarGenerationKeyError(cfg) THEN Raised("output_results", "KeyError")
               ELSE ReturnedValue("output_results",
                                  [demand |-> DemandCoverageTable(cfg, solution),
                                   pv |-> SolarGenerationTable(cfg, solution),
                                   storage |-> StorageTable(cfg, solution)])
    /\ UNCHANGED Untouched

\* series whose index differs from the others': one position short, labels
\* moved by one, labels of the other kind
Shorter(s) ==
    Series(s.kind, SubSeq(s.labels, 1, Len(s.labels) - 1), SubSeq(s.values, 1, Len(s.values) - 1))

Shifted(s) == Series(s.kind, [i \in 1..Len(s.labels) |-> s.labels[i] + 1], s.values)

OtherKind(s) == Series(IF s.kind = "int" THEN "datetime" ELSE "int", s.labels, s.values)

\* the caller's series with the index of one of the five series changed
Mismatched(sr) ==
    UNION { { [sr EXCEPT ![attrs[k]] = Shorter(@)],
              [sr EXCEPT ![attrs[k]] = Shifted(@)],
              [sr EXCEPT ![attrs[k]] = OtherKind(@)] } : k \in 1..Len(attrs) }

\* a demand no supply can meet: the flows into the home cannot be negative
NegativeDemandInputs ==
    { Inputs(IntSeries(<<1, -1, 1>>), Zero3, IntSeries(<<0, 1, 1>>), Zero3, Zero3, Zero3) }

\* use-case lists with a name the engine has no rule for
UnknownUseCaseLists == { {"eeg", "peak_shaving"}, {"self_consumption"} }

\* the caller's series, all with the same integer index of these labels
Relabelled(i, labels) == [name \in DOMAIN i |-> Series("int", labels, i[name].values)]

\* integer indexes of three rows other than 0, 1, 2: a range that starts at 1,
\* and the labels 0, 1, 2 out of order
IntegerIndexes == { <<1, 2, 3>>, <<2, 0, 1>> }

\* the arguments of the constructor; given keeps the series as they were passed
EngineCall(storage, sr, u, f) ==
    [storage |-> storage, given |-> sr, storage_use_cases |-> u, flags |-> f, options |-> <<>>]

\* the same call with further keyword arguments
WithOptions(cl, options) == [cl EXCEPT !.options = options]

Zero4 == IntSeries(<<0, 0, 0, 0>>)

\* tests/test_ECC.py, test_ECC_wholesale: no demand, wholesale prices [0,0,5,5]
\* with a fee of 0.5 and volume 1, [3,3,5,5] with no fee and volume 2
WholesaleFeeCalls ==
    { WithOptions(EngineCall(UnitStorage,
                             Inputs(Zero4, Zero4, IntSeries(<<10, 10, 10, 10>>), Zero4, Zero4,
                                    IntSeries(<<0, 0, 5, 5>>)),
                             AllUseCases, f),
                  [wholesale_fee |-> Rat(1, 2)]) : f \in FlagSets }
    \cup { WithOptions(EngineCall(Storage(0, Rat(1, 1), 2, Rat(1, 1), Rat(1, 1)),
                                  Inputs(Zero4, Zero4, IntSeries(<<10, 10, 10, 10>>), Zero4, Zero4,
                                         IntSeries(<<3, 3, 5, 5>>)),
                                  AllUseCases, f),
                       [wholesale_fee |-> Rat(0, 1)]) : f \in FlagSets }

\* tests/test_ECC.py, test_ECC_hours_per_timestep: demand 1 at price 1 over
\* four timesteps of a quarter of an hour, no storage
HoursPerTimestepCalls ==
    { WithOptions(EngineCall(NoStorage,
                             Inputs(IntSeries(<<1, 1, 1, 1>>), Zero4, IntSeries(<<1, 1, 1, 1>>),
                                    Zero4, Zero4, Zero4),
                             AllUseCases, f),
                  [hours_per_timestep |-> Rat(1, 4)]) : f \in FlagSets }

\* tests/test_ECC.py, test_green_objective_stores_pv_for_later_home_use: solar
\* [1,0,0], demand [0,1,0], wholesale prices [-10,10,0], under either goal
ObjectiveModeCalls ==
    { WithOptions(EngineCall(UnitStorage,
                             Inputs(IntSeries(<<0, 1, 0>>), IntSeries(<<1, 0, 0>>), Zero3, Zero3,
                                    Zero3, IntSeries(<<-10, 10, 0>>)),
                             AllUseCases, f),
                  [wholesale_fee |-> Rat(0, 1), goal |-> g]) :
        f \in FlagSets, g \in {"max_green_energy", "max_cashflow"} }

EngineCalls ==
    { EngineCall(st, WithIndex(i, kind), u, DefaultFlags) :
        st \in {None, NoStorage, UnitStorage}, i \in TestInputs,
        kind \in {"int", "datetime"}, u \in {AllUseCases, {"eeg"}} }
    \cup { EngineCall(st, sr, AllUseCases, DefaultFlags) :
             st \in {None, UnitStorage},
             sr \in UNION { Mismatched(WithIndex(i, kind)) :
                              i \in ConstantInputs, kind \in {"int", "datetime"} } }
    \cup { EngineCall(UnitStorage, WithIndex(i, "int"), u, f) :
             i \in TestInputs, u \in UnknownUseCaseLists, f \in FlagSets }
    \cup { EngineCall(st, WithIndex(i, "int"), AllUseCases, DefaultFlags) :
             st \in {NoStorage, UnitStorage}, i \in NegativeDemandInputs }
    \cup WholesaleFeeCalls \cup HoursPerTimestepCalls \cup ObjectiveModeCalls
    \cup { EngineCall(UnitStorage, Relabelled(i, labels), AllUseCases, DefaultFlags) :
             i \in TestInputs, labels \in IntegerIndexes }

InitEngine ==
    /\ call \in EngineCalls
    /\ series = call.given
    /\ pc = "call"
    /\ cfg = None
    /\ is_optimized = FALSE
    /\ solution = <<>>
    /\ last = ReturnedValue("none", None)
    /\ timestep = 0
    /\ model = <<>>
    /\ previous = <<>>
    /\ objective = 0
    /\ eccs = <<>>
    /\ costs = <<>>
    /\ result = 0

NextEngine ==
    \/ EnergyCostCalculator
    \/ OptimizeEngine
    \/ get_demand_coverage_timeseries_df
    \/ get_solar_generation_timeseries_df
    \/ get_storage_timeseries_df
    \/ output_results

SpecEngine == InitEngine /\ [][NextEngine]_vars

(***************************************************************************)
(* Properties of an engine instance (SpecEngine).                          *)
(***************************************************************************)
ResultOperations ==
    {"output_results", "get_demand_coverage_timeseries_df",
     "get_solar_generation_timeseries_df", "get_storage_timeseries_df"}

\* no optimize of the instance has loaded a solution so far
NeverSolved == solution = <<>>

\* C11: solver failure is surfaced. optimize either returns the objective value
\* of an optimal solution, or, when the solver fails (no solution, solver not
\* available), raises without returning a value and without marking the
\* instance as optimized: is_optimized stays False.
C11_SolverFailureSurfaced ==
    last.op = "optimize" =>
        \/ /\ last.raised = "none"
           /\ is_optimized
           /\ last.value = Cell(optimize(cfg))
        \/ /\ last.raised # "none"
           /\ last.value = None
           /\ NeverSolved => ~is_optimized

\* C12: every result-extraction operation called on an instance before a
\* successful optimize raises an error instead of returning a table.
C12_ExtractionBeforeOptimizeRaises ==
    (last.op \in ResultOperations /\ NeverSolved) => last.raised # "none"

\* the series as they were passed have one common index
IndexesAgree(sr) == \A name \in DOMAIN sr : IndexOf(sr[name]) = IndexOf(sr.demand)

\* C14: storage=None is accepted and equivalent to a zero-volume storage.
\* Construction succeeds and optimize returns the objective the same inputs
\* give with Storage(volume=0).
C14_NoneIsZeroVolume ==
    (call.storage = None /\ IndexesAgree(call.given) /\ pc # "call") =>
        /\ pc = "built"
        /\ last.op = "__init__" => last.raised = "none"
        /\ (last.op = "optimize" /\ last.raised = "none") =>
              last.value = Cell(optimize([cfg EXCEPT !.storage = NoStorage]))

\* C16: index equality is enforced at construction. If one of the five series
\* has an index that differs from the demand's, the constructor raises
\* ValueError and no model is built.  (Without a storage the constructor has
\* raised before it looks at the series.)
C16_IndexEqualityEnforced ==
    (pc # "call" /\ ~IndexesAgree(call.given)) =>
        /\ pc = "failed"
        /\ cfg = None
        /\ last.op = "__init__" /\ last.raised # "none"
        /\ call.storage # None => last.raised = "ValueError"

\* datetime-indexed series of equal length, the fault in a later one: the
\* constructor raised after it had gone through the series before it
C16_Witness ==
    /\ pc = "failed"
    /\ last = Raised("__init__", "ValueError")
    /\ call.given.demand.kind = "datetime"
    /\ \A name \in DOMAIN call.given : Len(call.given[name].labels) = 3
    /\ series # call.given

\* C17: each of the three result tables is indexed by the original input time
\* index: with datetime-indexed inputs the rows carry the original timestamps,
\* and each row holds the values of its timestep.
C17_TablesKeepTimeIndex ==
    (last.op \in ResultOperations /\ last.raised = "none" /\ ~NeverSolved) =>
        LET original == IndexOf(call.given.demand)
            demand == [i \in 1..Horizon(cfg) |-> Cell(call.given.demand.values[i])]
        IN  IF last.op = "output_results"
            THEN /\ last.value.demand.index = original
                 /\ last.value.pv.index = original
                 /\ last.value.storage.index = original
                 /\ last.value.demand.columns.demand = demand
            ELSE /\ last.value.index = original
                 /\ last.op = "get_demand_coverage_timeseries_df" =>
                       last.value.columns.demand = demand

\* C18: result extraction works for every active use-case list. After a
\* successful solve with a list that omits use cases the result tables are
\* still produced, and the PV->storage flow reported for an omitted use case is
\* 0 at every timestep.
C18_ExtractionForEveryUseCaseList ==
    (last.op \in ResultOperations /\ is_optimized /\ ~NeverSolved) =>
        /\ last.raised = "none"
        /\ \A use \in AllUseCases \ cfg.storage_use_cases :
              /\ last.op = "output_results" =>
                    last.value.pv.columns.to_storage[use] = [i \in 1..Horizon(cfg) |-> Cell(0)]
              /\ last.op = "get_solar_generation_timeseries_df" =>
                    last.value.columns.to_storage[use] = [i \in 1..Horizon(cfg) |-> Cell(0)]

\* C19: a use-case name outside {eeg, home, community, wholesale} in the active
\* use-case list is rejected at construction time: the constructor raises and
\* no model is built with the unknown name.
C19_UnknownUseCaseRejected ==
    (pc # "call" /\ ~(call.storage_use_cases \subseteq AllUseCases)) =>
        /\ pc = "failed"
        /\ last.op = "__init__" /\ last.raised # "none"

\* the constructor has come back from a call that passed this keyword
Passed(keyword) == pc # "call" /\ keyword \in DOMAIN call.options

\* the cash flow of a loaded solution: the objective's terms over its timesteps
CashFlow(c, sol) ==
    SumOver([k \in 1..Len(sol) |-> ObjectiveTerm(c, sol[k], k - 1)], 1..Len(sol))

\* C24: the engine offers two objective modes selected per run. For solar
\* [1,0,0], demand [0,1,0], wholesale prices [-10,10,0], all other prices 0, a
\* unit storage and zero fee, green-energy mode sends the PV to storage for
\* home at t=0 and discharges it to home at t=1 with cash flow 0, while
\* cashflow mode trades on the wholesale market with cash flow 20.
C24_TwoObjectiveModes ==
    Passed("goal") =>
        /\ pc = "built"
        /\ last.op = "optimize" =>
              /\ last.raised = "none"
              /\ call.options.goal = "max_green_energy" =>
                    /\ solution[1].pv_to_storage["home"] = 1
                    /\ solution[2].storage_to_home = 1
                    /\ CashFlow(cfg, solution) = 0
              /\ call.options.goal = "max_cashflow" =>
                    /\ last.value = Cell(20)
                    /\ CashFlow(cfg, solution) = 20

\* what the storage earns on the wholesale market in a loaded solution
WholesaleRevenue(c, sol) ==
    SumOver([k \in 1..Len(sol) |->
                sol[k].storage_to_wholesale * loc(c.wholesale_market_prices, k - 1)],
            1..Len(sol))

\* C25: wholesale trading fee. With a fee fraction f the gross revenue of the
\* storage's wholesale sales is reduced by the fraction f, and with f = 0 the
\* objective is that of the model without a fee term: one unit bought at 0
\* and sold at 5 with f = 0.5 gives 2.5, two units bought at 3 and sold at 5
\* with f = 0 give 4.
C25_WholesaleFee ==
    (Passed("wholesale_fee") /\ ~Passed("goal")) =>
        /\ pc = "built"
        /\ last.op = "optimize" =>
              LET f == call.options.wholesale_fee IN
              /\ last.raised = "none"
              /\ last.value.value * f.den
                    = CashFlow(cfg, solution) * f.den - WholesaleRevenue(cfg, solution) * f.num
              /\ f = Rat(0, 1) => last.value = Cell(optimize(cfg))
              /\ (f = Rat(1, 2) /\ cfg.storage.volume = 1) => 2 * last.value.value = 5
              /\ (f = Rat(0, 1) /\ cfg.storage.volume = 2) => last.value = Cell(4)

\* C26: hours-per-timestep scaling. Given a factor h every cash-flow term of
\* the objective is multiplied by h: demand 1 over four timesteps at grid price
\* 1 with h = 0.25 and no storage gives -1.
C26_HoursPerTimestep ==
    Passed("hours_per_timestep") =>
        /\ pc = "built"
        /\ last.op = "optimize" =>
              LET h == call.options.hours_per_timestep IN
              /\ last.raised = "none"
              /\ last.value.value * h.den = CashFlow(cfg, solution) * h.num
              /\ h = Rat(1, 4) => last.value = Cell(-1)

\* the energy a timestep of a schedule puts into the storage and takes out of it
ChargedInto(m) ==
    SumOver(m.pv_to_storage, DOMAIN m.pv_to_storage)
    + m.supplier_to_storage + m.community_to_storage + m.wholesale_to_storage

DischargedFrom(m) ==
    m.storage_to_eeg + m.storage_to_wholesale + m.storage_to_community + m.storage_to_home

\* C27: energy conservation in storage. For every active use-case list, lists
\* that omit use cases included, and every solution of the model, at every
\* timestep t the energy discharged from the storage over the timesteps 0..t
\* does not exceed the energy charged into it over 0..t.
C27_StorageConservesEnergy ==
    \A t \in 1..Len(solution) :
        SumOver([k \in 1..t |-> DischargedFrom(solution[k])], 1..t)
            <= SumOver([k \in 1..t |-> ChargedInto(solution[k])], 1..t)

\* the series of an engine, each under the default index 0..T-1: position and
\* label are the same
Repositioned(c) ==
    [name \in DOMAIN c |->
        IF name \in PriceSeries \cup {"demand", "solar_generation"}
        THEN IntSeries(c[name].values) ELSE c[name]]

\* C29: prices are paired with the right timestep. For input series that share
\* one identical index, whatever its labels, the engine is built and the price
\* that values the flows of timestep t is the price at the same position as
\* the demand and the generation that constrain timestep t; the objective is
\* the one the same values give under the index 0..T-1.
C29_PricesPairedByPosition ==
    ( /\ pc # "call"
      /\ IndexesAgree(call.given)
      /\ call.storage # None
      /\ Binds(EngineParameters, RequiredEngineParameters, Keywords(call)) ) =>
        /\ pc = "built"
        /\ \A name \in PriceSeries, t \in 0..(Horizon(cfg) - 1) :
              /\ HasLabel(cfg[name], t)
              /\ loc(cfg[name], t) = iloc(cfg[name], t)
        /\ (last.op = "optimize" /\ last.raised = "none") =>
              last.value = Cell(optimize(Repositioned(cfg)))

(***************************************************************************)
(* pandas: a DataFrame is the labels of its rows and, by column, the cells *)
(* of the rows in order.  A cell holds a value or NaN.                     *)
(***************************************************************************)
DataFrame(index, columns) == [index |-> index, columns |-> columns]

\* the positions of the rows
Rows(df) == 1 .. Len(df.index)

\* v in frame[column].values
Holds(df, column, v) == \E i \in Rows(df) : df.columns[column][i] = Cell(v)

\* frame.loc[label, names] = v: every row labelled so gets v in these columns;
\* when no row has the label, a row is appended, NaN in the other columns
SetWithEnlargement(df, label, names, v) ==
    IF \E i \in Rows(df) : df.index[i] = label
    THEN DataFrame(df.index,
                   [c \in DOMAIN df.columns |->
                       [i \in Rows(df) |-> IF df.index[i] = label /\ c \in names
                                           THEN Cell(v) ELSE df.columns[c][i]]])
    ELSE DataFrame(Append(df.index, label),
                   [c \in DOMAIN df.columns |->
                       Append(df.columns[c], IF c \in names THEN Cell(v) ELSE NaN)])

\* the rows at the given positions, in that order, as a new frame
Take(df, positions) ==
    DataFrame([k \in 1..Len(positions) |-> df.index[positions[k]]],
              [c \in DOMAIN df.columns |->
                  [k \in 1..Len(positions) |-> df.columns[c][positions[k]]]])

\* frame.sort_values(column, ascending=True), the values of the column distinct
sort_values(df, column) ==
    Take(df, [k \in Rows(df) |->
                 CHOOSE i \in Rows(df) :
                     Cardinality({j \in Rows(df) :
                         df.columns[column][j].value < df.columns[column][i].value}) = k - 1])

\* a - b on cells: NaN when either is NaN
Minus(a, b) == IF a = NaN \/ b = NaN THEN NaN ELSE Cell(a.value - b.value)

\* frame.diff(): each row minus the row before it, the first row NaN
diff(df) ==
    DataFrame(df.index,
              [c \in DOMAIN df.columns |->
                  [i \in Rows(df) |-> IF i = 1 THEN NaN
                                      ELSE Minus(df.columns[c][i], df.columns[c][i - 1])]])

\* the positions of the rows to keep, in order
Positions(df, kept) == SelectSeq([i \in Rows(df) |-> i], LAMBDA i : i \in kept)

\* frame.dropna(): the rows without a NaN in any column
dropna(df) ==
    Take(df, Positions(df, {i \in Rows(df) : \A c \in DOMAIN df.columns : df.columns[c][i] # NaN}))

\* frame.reset_index(drop=True)
reset_index(df) == DataFrame(RangeLabels(Len(df.index)), df.columns)

AbsCell(a) == IF a = NaN THEN NaN ELSE Cell(IF a.value < 0 THEN - a.value ELSE a.value)

\* frame.abs()
abs(df) ==
    DataFrame(df.index, [c \in DOMAIN df.columns |-> [i \in Rows(df) |-> AbsCell(df.columns[c][i])]])

\* frame[name] = cells, a list of cells by position
WithColumn(df, name, cells) ==
    DataFrame(df.index,
              [c \in DOMAIN df.columns \cup {name} |-> IF c = name THEN cells ELSE df.columns[c]])

\* frame[name] = series: the series is aligned to the labels of the frame
AlignedCells(df, s) ==
    [i \in Rows(df) |->
        IF \E j \in 1..Len(s.index) : s.index[j] = df.index[i]
        THEN s.cells[CHOOSE j \in 1..Len(s.index) : s.index[j] = df.index[i]]
        ELSE NaN]

RECURSIVE CumSum(_, _)
\* series.cumsum() up to position n
CumSum(cells, n) == IF n = 0 THEN 0 ELSE cells[n].value + CumSum(cells, n - 1)

\* frame.rename(columns={old: new})
rename(df, old, new) ==
    DataFrame(df.index,
              [c \in (DOMAIN df.columns \ {old}) \cup {new} |->
                  IF c = new THEN df.columns[old] ELSE df.columns[c]])

\* a / b on cells, kept as the fraction
Divided(a, b) == IF a = NaN \/ b = NaN THEN NaN ELSE Cell(Rat(a.value, b.value))

(***************************************************************************)
(* calculate_bidding_curve(volumes_worth, buy_or_sell_side): the caller's  *)
(* table after the call and the outcome of the call.                       *)
(***************************************************************************)
\* the table after "if 0 not in volumes_worth['volume'].values: ..."
Anchored(volumes_worth) ==
    IF Holds(volumes_worth, "volume", 0) THEN volumes_worth
    ELSE SetWithEnlargement(volumes_worth, Len(volumes_worth.index), {"volume", "worth"}, 0)

\* the statements after original_costs = df["costs"].copy()
CurveOf(sorted) ==
    LET original_costs == [index |-> sorted.index, cells |-> sorted.columns.costs]
        differences == abs(reset_index(dropna(diff(sorted))))
        with_costs == WithColumn(differences, "costs", AlignedCells(differences, original_costs))
        cumulative == WithColumn(with_costs, "cumulative_volume",
                                 [i \in Rows(with_costs) |->
                                     Cell(CumSum(with_costs.columns.volume, i))])
        renamed == rename(cumulative, "worth", "marginal_price")
        nonzero == reset_index(Take(renamed,
                       Positions(renamed, {i \in Rows(renamed) :
                                              renamed.columns.volume[i] # Cell(0)})))
    IN  WithColumn(nonzero, "marginal_price_per_kwh",
                   [i \in Rows(nonzero) |->
                       Divided(nonzero.columns.marginal_price[i], nonzero.columns.volume[i])])

bidding_curve(volumes_worth, buy_or_sell_side) ==
    LET anchored == Anchored(volumes_worth)
        outcome ==
            IF buy_or_sell_side \notin {"buyer", "seller"}
            THEN Raised("calculate_bidding_curve", "ValueError")
            ELSE IF "costs" \notin DOMAIN anchored.columns
                 THEN Raised("calculate_bidding_curve", "KeyError")
                 ELSE ReturnedValue("calculate_bidding_curve",
                                    CurveOf(sort_values(anchored, "volume")))
    IN  [volumes_worth |-> anchored, outcome |-> outcome]

(***************************************************************************)
(* SpecCurve: calculate_bidding_curve called on a table the caller owns.   *)
(* series is the caller's table, call the arguments as they were passed.   *)
(***************************************************************************)
MaxPoints == 3
MaxRows == 3

\* worths of the volumes: the points of tests/test_BUC.py continued, and a
\* worth that does not grow with the volume
WorthCurves ==
    { [v \in 0..MaxPoints |-> IF v = 0 THEN 0 ELSE (7 * v + 4 - v * v) \div 2],
      [v \in 0..MaxPoints |-> IF v = 0 THEN 0 ELSE IF v % 2 = 1 THEN 4 + v ELSE 1 + v] }

\* the costs the valuation reports with a storage of this volume
CostsOf(v) == v - 10

\* the volumes of the rows, in the order of the rows: distinct, at most MaxRows
VolumeOrders ==
    UNION { { vs \in [1..n -> 0..MaxPoints] : \A i, j \in 1..n : vs[i] = vs[j] => i = j } :
              n \in 1..MaxRows }

\* pd.DataFrame({"volume": ..., "worth": ...[, "costs": ...]}, index=...)
Table(volumes, worth, first_label, with_costs) ==
    DataFrame([i \in 1..Len(volumes) |-> first_label + i - 1],
              IF with_costs
              THEN [c \in {"volume", "worth", "costs"} |->
                       [i \in 1..Len(volumes) |->
                           Cell(CASE c = "volume" -> volumes[i]
                                  [] c = "worth" -> worth[volumes[i]]
                                  [] c = "costs" -> CostsOf(volumes[i]))]]
              ELSE [c \in {"volume", "worth"} |->
                       [i \in 1..Len(volumes) |->
                           Cell(IF c = "volume" THEN volumes[i] ELSE worth[volumes[i]])]])

CurveTables ==
    { Table(vs, w, first, with_costs) :
        vs \in VolumeOrders, w \in WorthCurves, first \in {0, 1}, with_costs \in BOOLEAN }

Sides == {"buyer", "seller", "both"}

InitCurve ==
    /\ call \in [volumes_worth : CurveTables, buy_or_sell_side : Sides]
    /\ series = call.volumes_worth
    /\ pc = "call"
    /\ last = ReturnedValue("none", None)
    /\ cfg = None
    /\ is_optimized = FALSE
    /\ solution = <<>>
    /\ timestep = 0
    /\ model = <<>>
    /\ previous = <<>>
    /\ objective = 0
    /\ eccs = <<>>
    /\ costs = <<>>
    /\ result = 0

\* calculate_bidding_curve(volumes_worth, buy_or_sell_side)
calculate_bidding_curve ==
    /\ pc = "call"
    /\ LET done == bidding_curve(series, call.buy_or_sell_side)
       IN  /\ series' = done.volumes_worth
           /\ last' = done.outcome
    /\ pc' = "done"
    /\ UNCHANGED <<cfg, timestep, model, previous, objective, call, eccs, costs, result, is_optimized, solution>>

NextCurve == calculate_bidding_curve

SpecCurve == InitCurve /\ [][NextCurve]_vars

(***************************************************************************)
(* Properties of calculate_bidding_curve (SpecCurve).                      *)
(***************************************************************************)
\* the call has come back, and it was made for one of the two sides
CurveRequested == pc = "done" /\ call.buy_or_sell_side \in {"buyer", "seller"}

\* the caller gave no point of volume 0
NoZeroPoint == ~Holds(call.volumes_worth, "volume", 0)

\* value of the column at position i of the frame, 0 before the first row
ValueBefore(df, column, i) == IF i = 1 THEN 0 ELSE df.columns[column][i - 1].value

\* C21: given a table with columns 'volume' and 'worth' holding points with
\* distinct positive volumes and no zero-volume point, calculate_bidding_curve
\* returns exactly one row per input point in ascending volume order, with
\* marginal volume v_i - v_(i-1), marginal price |w_i - w_(i-1)| (v_0 = w_0 = 0),
\* cumulative volume v_i and per-unit price marginal price / marginal volume.
C21_BiddingCurveOfPoints ==
    (CurveRequested /\ NoZeroPoint) =>
        /\ last.raised = "none"
        /\ LET points == sort_values(call.volumes_worth, "volume")
               curve == last.value
           IN  /\ Len(curve.index) = Len(points.index)
               /\ \A i \in Rows(points) :
                     LET volume == points.columns.volume[i].value - ValueBefore(points, "volume", i)
                         price == Magnitude(points.columns.worth[i].value
                                            - ValueBefore(points, "worth", i))
                     IN  /\ curve.columns.volume[i] = Cell(volume)
                         /\ curve.columns.marginal_price[i] = Cell(price)
                         /\ curve.columns.cumulative_volume[i] = points.columns.volume[i]
                         /\ curve.columns.marginal_price_per_kwh[i] = Cell(Rat(price, volume))

\* the caller's points sorted ascending behind an explicit point of volume 0
\* and worth 0, as a table of its own
PreAnchored(df) ==
    reset_index(sort_values(
        DataFrame(Append(df.index, Len(df.index)),
                  [c \in DOMAIN df.columns |->
                      Append(df.columns[c], Cell(IF c = "costs" THEN CostsOf(0) ELSE 0))]),
        "volume"))

\* C22: the construction is insensitive to pre-sorting and pre-anchoring: the
\* call returns the same curve for points given in any order without a
\* zero-volume point as for the same points given sorted ascending with an
\* explicit (0,0) point.
C22_SortingAndAnchoringMakeNoDifference ==
    (CurveRequested /\ NoZeroPoint) =>
        LET prepared == bidding_curve(PreAnchored(call.volumes_worth), call.buy_or_sell_side)
        IN  /\ last.raised = "none"
            /\ prepared.outcome.raised = "none"
            /\ last.value = prepared.outcome.value

\* C30: calculate_bidding_curve never modifies the caller's table: after the
\* call, whether it returned a curve or raised, the table holds exactly the
\* rows and values it held before.
C30_CallerTableUntouched ==
    pc = "done" => series = call.volumes_worth

====
